---- MODULE Spec2Model ----
(***************************************************************************)
(* Sketch Vision Pipeline of synthframe (backend/vision).                  *)
(*                                                                         *)
(* The pipeline analyze_sketch is a state machine over its stages; the     *)
(* module-level functions it is built from (map_shape_to_component_type,   *)
(* filter_contours, contours_to_shapes, shapes_to_components,              *)
(* resize_for_processing) are operators, and each also has a call action   *)
(* that applies it to inputs drawn from bounded sets.                      *)
(*                                                                         *)
(* Numbers: Python floats are modelled as exact rationals <<num, den>>     *)
(* with den > 0, compared by cross-multiplication; a confidence is kept in *)
(* hundredths (0.9 is 90).  A contour area (cv2.contourArea) is an integer *)
(* number of pixels here.                                                  *)
(*                                                                         *)
(* A call ends in a value [kind |-> "return", ...] or in a raised          *)
(* exception [kind |-> "raise", exc |-> <type name>].                      *)
(***************************************************************************)
EXTENDS Integers, Sequences, FiniteSets, TLC

VARIABLES
    pc,             \* analyze_sketch: the stage the invocation is at
    image_base64,   \* analyze_sketch: the argument string (a sequence of characters)
    photo,          \* the raster the bytes of the payload encode, if they are an image
    return_debug_image, \* analyze_sketch: the argument flag
    image,          \* analyze_sketch: original_image, then resized_image
    binary_image,   \* analyze_sketch: the binary raster of preprocess_image
    notes,          \* analyze_sketch: the processing notes so far
    scale_factor,   \* analyze_sketch: scale returned by resize_for_processing
    contours,       \* detect_components: contours / valid_contours
    shapes,         \* detect_components: the DetectedShape list
    components,     \* detect_components: the Component list
    result,         \* analyze_sketch: what the invocation ended in
    fn,             \* unit call: the function applied ("idle" before any call)
    args,           \* unit call: its arguments
    ret             \* unit call: what it ended in

vars == <<pc, image_base64, photo, return_debug_image, image, binary_image, notes,
          scale_factor, contours, shapes, components, result, fn, args, ret>>

pipeVars == <<pc, image_base64, photo, return_debug_image, image, binary_image, notes,
              scale_factor, contours, shapes, components, result>>
callVars == <<fn, args, ret>>

----------------------------------------------------------------------------
(* Bounds of the model *)

MaxDim == 7         \* unit calls: largest image width / height
MaxArea == 10       \* unit calls of the classifier: largest shape area
MaxContours == 3    \* unit calls of contours_to_shapes: longest contour list
MaxXY == 2          \* unit calls of contours_to_shapes: largest x / y of a bounding box
MaxFilterLen == 2   \* unit calls of filter_contours: longest contour list
FilterImageArea == 20  \* unit calls of filter_contours: the image area passed
MaxMinArea == 1     \* unit calls of filter_contours: largest min_area passed
MaxCeiling == 3     \* unit calls of resize_for_processing: largest max_dimension
MaxShapes == 2      \* unit calls of shapes_to_components: longest shape list
MaxStrLen == 5      \* analyze_sketch: longest image_base64 string
MaxMarks == 1       \* analyze_sketch: most marks drawn on a photo
RepeatDim == 2      \* repeated classifier calls: image width and height
RepeatArea == 1     \* repeated classifier calls: largest area field
MaxKernel == 6      \* unit calls of apply_blur: largest configured kernel size

----------------------------------------------------------------------------
(* Outcomes and rationals *)

\* An optional integer argument: <<>> is None, <<v>> is the value v.
None == <<>>

Some(v) == <<v>>

\* A variable that holds nothing yet.
Unset == [kind |-> "unset"]

Raise(e) == [kind |-> "raise", exc |-> e]

Frac(n, d) == <<n, d>>

FLess(p, q) == p[1] * q[2] < q[1] * p[2]

FAdd(p, q) == <<p[1] * q[2] + q[1] * p[2], p[2] * q[2]>>

FEq(p, q) == p[1] * q[2] = q[1] * p[2]

Max2(a, b) == IF a >= b THEN a ELSE b

----------------------------------------------------------------------------
(* models/wireframe.py: the component-type enumeration *)

\* The member names of class ComponentType(str, Enum).
ComponentTypeMembers ==
    { "CONTAINER", "ROW", "COLUMN", "GRID",
      "NAVBAR", "SIDEBAR", "FOOTER", "BREADCRUMB", "TABS",
      "HEADING", "PARAGRAPH", "IMAGE", "ICON", "DIVIDER", "CARD",
      "BUTTON", "LINK", "INPUT", "TEXTAREA", "SELECT", "CHECKBOX", "RADIO",
      "TOGGLE", "SLIDER",
      "FORM", "LOGIN_FORM", "SIGNUP_FORM", "SEARCH_BAR",
      "TABLE", "LIST", "CALENDAR", "CHART", "PROGRESS_BAR", "BADGE", "AVATAR",
      "MODAL", "TOAST", "TOOLTIP", "ALERT",
      "BOX", "TEXT", "UNKNOWN" }

\* The expression ComponentType.<name>: the member, or AttributeError when the
\* enumeration defines no member of that name.
ComponentTypeAttr(name) ==
    IF name \in ComponentTypeMembers
    THEN [kind |-> "return", value |-> name]
    ELSE Raise("AttributeError")

----------------------------------------------------------------------------
(* vision/detect.py: DetectedShape and the classifier *)

\* DetectedShape.aspect_ratio: width / height, 0 when height is 0.
aspect_ratio(shape) ==
    IF shape.height = 0 THEN Frac(0, 1) ELSE Frac(shape.width, shape.height)

\* `return ComponentType.<name>, confidence`
ReturnType(name, confidence) ==
    LET t == ComponentTypeAttr(name)
    IN IF t.kind = "raise" THEN t
       ELSE [kind |-> "return", type |-> t.value, confidence |-> confidence]

\* The six rule predicates, on the derived ratios.
NavbarRule(y_ratio, width_ratio, height_ratio) ==
    /\ FLess(y_ratio, Frac(12, 100))
    /\ FLess(Frac(7, 10), width_ratio)
    /\ FLess(height_ratio, Frac(15, 100))

\* A footer rule that asks for the width only.
FooterRule_anywhere(y_ratio, width_ratio, height_ratio) ==
    FLess(Frac(7, 10), width_ratio)

FooterRule(y_ratio, width_ratio, height_ratio) ==
    /\ FLess(Frac(85, 100), FAdd(y_ratio, height_ratio))
    /\ FLess(Frac(7, 10), width_ratio)

SidebarRule(x_ratio, width_ratio, height_ratio) ==
    /\ FLess(x_ratio, Frac(3, 10))
    /\ FLess(Frac(1, 2), height_ratio)
    /\ FLess(width_ratio, Frac(35, 100))

HeroRule(y_ratio, area_ratio) ==
    /\ FLess(y_ratio, Frac(35, 100))
    /\ FLess(Frac(15, 100), area_ratio)

ButtonRule(area_ratio, aspect) ==
    /\ FLess(area_ratio, Frac(3, 100))
    /\ FLess(Frac(3, 2), aspect)
    /\ FLess(aspect, Frac(6, 1))

CardRule(area_ratio, aspect) ==
    /\ FLess(area_ratio, Frac(15, 100))
    /\ FLess(Frac(1, 2), aspect)
    /\ FLess(aspect, Frac(2, 1))

\* A classifier that checks the size-based HERO rule before the edge rules.
map_shape_hero_first(shape, image_width, image_height) ==
    IF image_width = 0 \/ image_height = 0 THEN Raise("ZeroDivisionError")
    ELSE
    LET x_ratio == Frac(shape.x, image_width)
        y_ratio == Frac(shape.y, image_height)
        width_ratio == Frac(shape.width, image_width)
        height_ratio == Frac(shape.height, image_height)
        area_ratio == Frac(shape.area, image_width * image_height)
    IN  IF HeroRule(y_ratio, area_ratio) THEN ReturnType("HERO", 80)
        ELSE IF NavbarRule(y_ratio, width_ratio, height_ratio) THEN ReturnType("NAVBAR", 90)
        ELSE IF FooterRule(y_ratio, width_ratio, height_ratio) THEN ReturnType("FOOTER", 85)
        ELSE IF SidebarRule(x_ratio, width_ratio, height_ratio) THEN ReturnType("SIDEBAR", 85)
        ELSE IF ButtonRule(area_ratio, aspect_ratio(shape)) THEN ReturnType("BUTTON", 70)
        ELSE IF CardRule(area_ratio, aspect_ratio(shape)) THEN ReturnType("CARD", 70)
        ELSE ReturnType("SECTION", 50)

\* A classifier with a memory: its answer depends on whether a call is already
\* on record.
map_shape_remembering(shape, image_width, image_height) ==
    IF fn = "idle" THEN ReturnType("NAVBAR", 90) ELSE ReturnType("CARD", 70)

\* map_shape_to_component_type(shape, image_width, image_height)
map_shape_to_component_type(shape, image_width, image_height) ==
    IF image_width = 0 \/ image_height = 0 THEN Raise("ZeroDivisionError")
    ELSE
    LET x_ratio == Frac(shape.x, image_width)
        y_ratio == Frac(shape.y, image_height)
        width_ratio == Frac(shape.width, image_width)
        height_ratio == Frac(shape.height, image_height)
        area_ratio == Frac(shape.area, image_width * image_height)
    IN  IF NavbarRule(y_ratio, width_ratio, height_ratio) THEN ReturnType("NAVBAR", 90)
        ELSE IF FooterRule(y_ratio, width_ratio, height_ratio) THEN ReturnType("FOOTER", 85)
        ELSE IF SidebarRule(x_ratio, width_ratio, height_ratio) THEN ReturnType("SIDEBAR", 85)
        ELSE IF HeroRule(y_ratio, area_ratio) THEN ReturnType("HERO", 80)
        ELSE IF ButtonRule(area_ratio, aspect_ratio(shape)) THEN ReturnType("BUTTON", 70)
        ELSE IF CardRule(area_ratio, aspect_ratio(shape)) THEN ReturnType("CARD", 70)
        ELSE ReturnType("SECTION", 50)

----------------------------------------------------------------------------
(* vision/detect.py: the Shape Extractor *)

\* A contour is what OpenCV reports of it: its bounding rectangle
\* (cv2.boundingRect), its area (cv2.contourArea) and the number of vertices of
\* its polygon approximation (cv2.approxPolyDP at 2% of the closed arc length).
boundingRect(contour) == <<contour.x, contour.y, contour.w, contour.h>>

contourArea(contour) == contour.area

approxPolyDP_len(contour) == contour.vertices

\* The area test with the lower bound exclusive: area <= min_area is skipped.
AreaTooSmall_exclusive(area, min_area) == area <= min_area

\* `if area < min_area: continue`
AreaTooSmall(area, min_area) == area < min_area

\* The area test with the upper bound inclusive: area >= 95% is skipped.
AreaTooLarge_inclusive(area, image_area) ==
    ~ FLess(Frac(area, 1), Frac(image_area * 95, 100))

\* `if area > image_area * 0.95: continue`
AreaTooLarge(area, image_area) ==
    FLess(Frac(image_area * 95, 100), Frac(area, 1))

\* `if 3 <= len(approx) <= 8`
\* A vertex test that lets every polygon through.
RoughlyRectangular_any(contour) == TRUE

\* A vertex test that takes quadrilaterals only.
RoughlyRectangular_quadrilateral(contour) == approxPolyDP_len(contour) = 4

RoughlyRectangular(contour) ==
    3 <= approxPolyDP_len(contour) /\ approxPolyDP_len(contour) <= 8

\* One iteration of the loop of filter_contours: whether the contour is appended.
KeepsContour(contour, image_area, min_area) ==
    /\ ~ AreaTooSmall(contourArea(contour), min_area)
    /\ ~ AreaTooLarge(contourArea(contour), image_area)
    /\ RoughlyRectangular(contour)

\* filter_contours(contours, image_area, min_area)
filter_contours(cs, image_area, min_area) ==
    LET Keep(c) == KeepsContour(c, image_area, min_area)
    IN  SelectSeq(cs, Keep)

\* The loop body of contours_to_shapes: one DetectedShape per contour.  (The
\* shape's reference to its contour is not kept.)
ShapeOf(contour) ==
    LET r == boundingRect(contour)
    IN  [x |-> r[1], y |-> r[2], width |-> r[3], height |-> r[4],
         area |-> contourArea(contour)]

\* A sort key with the coordinates swapped: (x, y).
SortKeyLess_swapped(a, b) == a.x < b.x \/ (a.x = b.x /\ a.y < b.y)

\* `key=lambda s: (s.y, s.x)`: whether a's key is less than b's.
SortKeyLess(a, b) == a.y < b.y \/ (a.y = b.y /\ a.x < b.x)

\* list.sort is stable: an element goes after all elements whose key is not
\* greater than its own.
RECURSIVE InsertSorted(_, _)
InsertSorted(s, sorted) ==
    IF sorted = <<>> THEN <<s>>
    ELSE IF SortKeyLess(s, Head(sorted)) THEN <<s>> \o sorted
    ELSE <<Head(sorted)>> \o InsertSorted(s, Tail(sorted))

RECURSIVE SortShapes(_)
SortShapes(ss) ==
    IF ss = <<>> THEN <<>>
    ELSE InsertSorted(ss[Len(ss)], SortShapes(SubSeq(ss, 1, Len(ss) - 1)))

\* contours_to_shapes(contours)
contours_to_shapes(cs) ==
    SortShapes([i \in 1..Len(cs) |-> ShapeOf(cs[i])])

----------------------------------------------------------------------------
(* vision/preprocess.py: the Scaler *)

\* A raster is [width, height, data, marks]: data names the pixel content by
\* the processing steps applied to the decoded photo, marks are the closed
\* strokes drawn on it (each gives one outer boundary when traced).
Raster(width, height, data, marks) ==
    [width |-> width, height |-> height, data |-> data, marks |-> marks]

\* int(x) of a non-negative rational.
IntOf(p) == p[1] \div p[2]

FMul(n, p) == <<n * p[1], p[2]>>

\* cv2.resize(image, (new_width, new_height), interpolation=cv2.INTER_AREA):
\* OpenCV rejects an empty destination size.
cv2_resize(img, new_width, new_height) ==
    IF new_width <= 0 \/ new_height <= 0 THEN Raise("cv2.error")
    ELSE [kind |-> "return",
          image |-> Raster(new_width, new_height, Append(img.data, "resize"),
                           img.marks)]

\* resize_for_processing(image, max_dimension)
resize_for_processing(img, max_dimension) ==
    LET height == img.height
        width == img.width
    IN  IF Max2(height, width) <= max_dimension
        THEN [kind |-> "return", image |-> img, scale |-> Frac(1, 1)]
        ELSE LET scale == IF width > height THEN Frac(max_dimension, width)
                          ELSE Frac(max_dimension, height)
                 new_width == IntOf(FMul(width, scale))
                 new_height == IntOf(FMul(height, scale))
                 resized == cv2_resize(img, new_width, new_height)
             IN  IF resized.kind = "raise" THEN resized
                 ELSE [kind |-> "return", image |-> resized.image, scale |-> scale]

----------------------------------------------------------------------------
(* Unit calls: a caller applies one module-level function to arguments *)

NoCall == [none |-> TRUE]

\* No invocation of analyze_sketch is under way and no call has been made.
InitUnit ==
    /\ pc = "idle"
    /\ image_base64 = <<>>
    /\ photo = Unset
    /\ return_debug_image = TRUE
    /\ image = Unset
    /\ binary_image = Unset
    /\ notes = <<>>
    /\ scale_factor = Unset
    /\ contours = <<>>
    /\ shapes = <<>>
    /\ components = <<>>
    /\ result = Unset
    /\ fn = "idle"
    /\ args = NoCall
    /\ ret = NoCall

\* The DetectedShape values a call is given: a bounding box inside the image,
\* and an area field that (as in the dataclass) is independent of the box.
ShapesIn(image_width, image_height) ==
    { [x |-> x, y |-> y, width |-> w, height |-> h, area |-> a] :
        x \in 0..image_width, y \in 0..image_height,
        w \in 0..image_width, h \in 0..image_height, a \in 0..MaxArea }

InImage(shape, image_width, image_height) ==
    /\ shape.x + shape.width <= image_width
    /\ shape.y + shape.height <= image_height

\* The caller takes the returned value (or the exception) and is idle again.
CallReturn ==
    /\ fn # "idle"
    /\ fn' = "idle"
    /\ args' = NoCall
    /\ ret' = NoCall
    /\ UNCHANGED pipeVars

Call_map_shape_to_component_type ==
    /\ fn = "idle"
    /\ \E image_width \in 0..MaxDim, image_height \in 0..MaxDim :
         \E shape \in ShapesIn(image_width, image_height) :
            /\ InImage(shape, image_width, image_height)
            /\ fn' = "map_shape_to_component_type"
            /\ args' = [shape |-> shape, image_width |-> image_width,
                        image_height |-> image_height]
            /\ ret' = map_shape_to_component_type(shape, image_width, image_height)
    /\ UNCHANGED pipeVars

NextClassify == Call_map_shape_to_component_type \/ CallReturn

SpecClassify == InitUnit /\ [][NextClassify]_vars

----------------------------------------------------------------------------
(* The cascade of the Component Classifier, as the specification states it: *)
(* integer forms of the rules on x, y, width, height, area.                 *)

NavbarStated(s, W, H) ==
    s.y * 100 < 12 * H /\ s.width * 10 > 7 * W /\ s.height * 100 < 15 * H

FooterStated(s, W, H) ==
    (s.y + s.height) * 100 > 85 * H /\ s.width * 10 > 7 * W

SidebarStated(s, W, H) ==
    s.x * 10 < 3 * W /\ s.height * 2 > H /\ s.width * 100 < 35 * W

HeroStated(s, W, H) ==
    s.y * 100 < 35 * H /\ s.area * 100 > 15 * W * H

ButtonStated(s, W, H) ==
    /\ s.area * 100 < 3 * W * H
    /\ s.height # 0
    /\ 2 * s.width > 3 * s.height
    /\ s.width < 6 * s.height

CardStated(s, W, H) ==
    /\ s.area * 100 < 15 * W * H
    /\ s.height # 0
    /\ 2 * s.width > s.height
    /\ s.width < 2 * s.height

EdgeStated(s, W, H) ==
    NavbarStated(s, W, H) \/ FooterStated(s, W, H) \/ SidebarStated(s, W, H)

SizeStated(s, W, H) ==
    HeroStated(s, W, H) \/ ButtonStated(s, W, H) \/ CardStated(s, W, H)

FirstMatchStated(s, W, H) ==
    IF NavbarStated(s, W, H) THEN <<"NAVBAR", 90>>
    ELSE IF FooterStated(s, W, H) THEN <<"FOOTER", 85>>
    ELSE IF SidebarStated(s, W, H) THEN <<"SIDEBAR", 85>>
    ELSE IF HeroStated(s, W, H) THEN <<"HERO", 80>>
    ELSE IF ButtonStated(s, W, H) THEN <<"BUTTON", 70>>
    ELSE IF CardStated(s, W, H) THEN <<"CARD", 70>>
    ELSE <<"SECTION", 50>>

Classified ==
    /\ fn = "map_shape_to_component_type"
    /\ args.image_width > 0
    /\ args.image_height > 0

\* C1: for every shape and positive image size, map_shape_to_component_type
\* returns the (type, confidence) of the first matching rule of the cascade
\* NAVBAR, FOOTER, SIDEBAR, HERO, BUTTON, CARD, and (SECTION, 0.5) when none
\* matches.
C1_FirstMatchCascade ==
    Classified =>
        /\ ret.kind = "return"
        /\ <<ret.type, ret.confidence>> =
               FirstMatchStated(args.shape, args.image_width, args.image_height)

\* C2: a shape that satisfies an edge-anchored rule together with a size-based
\* rule is given the edge-anchored type of the first edge rule it satisfies; a
\* shape satisfying the NAVBAR and the HERO rule is NAVBAR.
C2_EdgeBeforeSize ==
    Classified =>
        LET s == args.shape
            W == args.image_width
            H == args.image_height
        IN  /\ (EdgeStated(s, W, H) /\ SizeStated(s, W, H)) =>
                  /\ ret.kind = "return"
                  /\ ret.type \in {"NAVBAR", "FOOTER", "SIDEBAR"}
                  /\ ret.type = FirstMatchStated(s, W, H)[1]
            /\ (NavbarStated(s, W, H) /\ HeroStated(s, W, H)) =>
                  /\ ret.kind = "return"
                  /\ ret.type = "NAVBAR"

\* C2 witness: a classified shape that satisfies the NAVBAR and the HERO rule.
C2_Witness_NavbarAndHero ==
    /\ Classified
    /\ NavbarStated(args.shape, args.image_width, args.image_height)
    /\ HeroStated(args.shape, args.image_width, args.image_height)
    /\ ret.kind = "return"
    /\ ret.type = "NAVBAR"

----------------------------------------------------------------------------
(* Unit calls of the Shape Extractor's functions *)

\* All sequences over S of length at most n.
SeqsUpTo(S, n) == UNION { [1..k -> S] : k \in 0..n }

\* Contours given to filter_contours: every area up to the image area, vertex
\* counts on both sides of the 3..8 window.
FilterContours ==
    { [x |-> 0, y |-> 0, w |-> 1, h |-> 1, area |-> a, vertices |-> v] :
        a \in 0..FilterImageArea, v \in {2, 3, 8, 9} }

Call_filter_contours ==
    /\ fn = "idle"
    /\ \E cs \in SeqsUpTo(FilterContours, MaxFilterLen), min_area \in 0..MaxMinArea :
            /\ fn' = "filter_contours"
            /\ args' = [contours |-> cs, image_area |-> FilterImageArea,
                        min_area |-> min_area]
            /\ ret' = [kind |-> "return",
                       value |-> filter_contours(cs, FilterImageArea, min_area)]
    /\ UNCHANGED pipeVars

\* Contours given to contours_to_shapes: bounding boxes on a small grid, two
\* widths so that contours with equal (y, x) are told apart.
ShapeContours ==
    { [x |-> x, y |-> y, w |-> w, h |-> 1, area |-> 1, vertices |-> 4] :
        x \in 0..MaxXY, y \in 0..MaxXY, w \in 1..2 }

Call_contours_to_shapes ==
    /\ fn = "idle"
    /\ \E cs \in SeqsUpTo(ShapeContours, MaxContours) :
            /\ fn' = "contours_to_shapes"
            /\ args' = [contours |-> cs]
            /\ ret' = [kind |-> "return", value |-> contours_to_shapes(cs)]
    /\ UNCHANGED pipeVars

NextFilter == Call_filter_contours \/ CallReturn

SpecFilter == InitUnit /\ [][NextFilter]_vars

NextShapes == Call_contours_to_shapes \/ CallReturn

SpecShapes == InitUnit /\ [][NextShapes]_vars

\* How many elements of sequence s equal e.
Count(s, e) == Cardinality({ i \in 1..Len(s) : s[i] = e })

Filtered == fn = "filter_contours"

\* The other two tests of filter_contours, as the specification states them.
NotAbove95(c) == c.area * 100 <= 95 * args.image_area

Below95(c) == c.area * 100 < 95 * args.image_area

Vertices3to8(c) == c.vertices \in 3..8

\* C8: a contour with area exactly min_area is not discarded by the area test
\* (it is returned whenever it passes the upper area test and the vertex test);
\* every contour with area strictly below min_area is discarded.
C8_LowerBoundInclusive ==
    Filtered =>
        \A i \in 1..Len(args.contours) :
            LET c == args.contours[i]
            IN  /\ (c.area = args.min_area /\ Below95(c) /\ Vertices3to8(c))
                      => Count(ret.value, c) = Count(args.contours, c)
                /\ (c.area < args.min_area) => Count(ret.value, c) = 0

\* C8 witness: a call whose list holds a contour of area exactly min_area,
\* which is returned, and a contour below min_area, which is not.
C8_Witness_AtMinimumKept ==
    /\ Filtered
    /\ \E i, j \in 1..Len(args.contours) :
          /\ args.contours[i].area = args.min_area
          /\ args.min_area > 0
          /\ Count(ret.value, args.contours[i]) > 0
          /\ args.contours[j].area < args.min_area
          /\ Count(ret.value, args.contours[j]) = 0

\* C9 as stated: a contour with area exactly 95% of the image area is
\* discarded, as is every contour above 95%.
C9_UpperBoundInclusive ==
    Filtered =>
        \A i \in 1..Len(args.contours) :
            LET c == args.contours[i]
            IN  (c.area * 100 >= 95 * args.image_area) => Count(ret.value, c) = 0

\* C9 amended: every contour with area strictly above 95% of the image area is
\* discarded; a contour with area exactly 95% is not discarded by the area
\* test (it is returned whenever it passes the lower area test and the vertex
\* test).
C9_UpperBoundExclusive ==
    Filtered =>
        \A i \in 1..Len(args.contours) :
            LET c == args.contours[i]
            IN  /\ (c.area * 100 > 95 * args.image_area) => Count(ret.value, c) = 0
                /\ (c.area * 100 = 95 * args.image_area /\ c.area >= args.min_area
                        /\ Vertices3to8(c))
                      => Count(ret.value, c) = Count(args.contours, c)

\* C9 witness: a call whose list holds a contour of area exactly 95% of the
\* image area, which is returned, and a larger one, which is not.
C9_Witness_At95Kept ==
    /\ Filtered
    /\ \E i, j \in 1..Len(args.contours) :
          /\ args.contours[i].area * 100 = 95 * args.image_area
          /\ Count(ret.value, args.contours[i]) > 0
          /\ args.contours[j].area * 100 > 95 * args.image_area
          /\ Count(ret.value, args.contours[j]) = 0

ShapesMade == fn = "contours_to_shapes"

\* C6: the list contours_to_shapes returns is sorted ascending by (y, x): a
\* shape with smaller y, or equal y and smaller x, never comes after the other.
C6_SortedByYX ==
    ShapesMade =>
        \A i, j \in 1..Len(ret.value) :
            LET A == ret.value[i]
                B == ret.value[j]
            IN  (A.y < B.y \/ (A.y = B.y /\ A.x < B.x)) => i < j

\* C6 witness: a call on a list that was not in (y, x) order, with two
\* contours level in y and two that differ in y, returns.
C6_Witness_Reordered ==
    /\ ShapesMade
    /\ Len(args.contours) = MaxContours
    /\ \E i, j \in 1..Len(args.contours) :
          i < j /\ args.contours[j].y < args.contours[i].y
    /\ \E i, j \in 1..Len(args.contours) :
          /\ i < j
          /\ args.contours[j].y = args.contours[i].y
          /\ args.contours[j].x < args.contours[i].x
    /\ Len(ret.value) = Len(args.contours)

----------------------------------------------------------------------------
(* Unit calls of the Scaler *)

Call_resize_for_processing ==
    /\ fn = "idle"
    /\ \E width \in 1..MaxDim, height \in 1..MaxDim, max_dimension \in 1..MaxCeiling :
            /\ fn' = "resize_for_processing"
            /\ args' = [image |-> Raster(width, height, <<"photo">>, <<>>),
                        max_dimension |-> max_dimension]
            /\ ret' = resize_for_processing(Raster(width, height, <<"photo">>, <<>>),
                                            max_dimension)
    /\ UNCHANGED pipeVars

NextResize == Call_resize_for_processing \/ CallReturn

SpecResize == InitUnit /\ [][NextResize]_vars

Resized == fn = "resize_for_processing"

\* C10: resize_for_processing returns the input raster unchanged with scale 1.0
\* when max(width, height) <= ceiling; otherwise it returns the scale
\* ceiling / max(width, height) and a raster whose width and height are the
\* original ones multiplied by that scale (truncated to integers).
C10_ResizeContract ==
    Resized =>
        LET w == args.image.width
            h == args.image.height
            c == args.max_dimension
            m == IF w >= h THEN w ELSE h
        IN  /\ ret.kind = "return"
            /\ IF m <= c
               THEN ret.image = args.image /\ ret.scale[1] = ret.scale[2]
               ELSE /\ ret.scale[1] * m = c * ret.scale[2]
                    /\ ret.image.width = (w * c) \div m
                    /\ ret.image.height = (h * c) \div m

----------------------------------------------------------------------------
(* vision/detect.py: the Layout Assembler *)

default_canvas_width == 1440

default_canvas_height == 900

\* The keys of the `defaults` table of _get_default_props, in the order the
\* dict display evaluates them (each is an expression ComponentType.<name>).
DefaultPropsKeys ==
    << "NAVBAR", "HERO", "SECTION", "CARD", "BUTTON", "FOOTER", "SIDEBAR",
       "FORM", "TABLE", "CALENDAR", "CHART" >>

\* The payload the table holds for a key: the names of its entries.
DefaultPropsOf(name) ==
    CASE name = "NAVBAR" -> {"logo", "links"}
      [] name = "HERO" -> {"headline", "subheadline", "cta"}
      [] name = "SECTION" -> {"title", "content"}
      [] name = "CARD" -> {"title", "description"}
      [] name = "BUTTON" -> {"text", "variant"}
      [] name = "FOOTER" -> {"links", "copyright"}
      [] name = "SIDEBAR" -> {"items"}
      [] name = "FORM" -> {"fields", "submitText"}
      [] name = "TABLE" -> {"columns", "rows"}
      [] name = "CALENDAR" -> {"view"}
      [] name = "CHART" -> {"type"}
      [] OTHER -> {}

\* _get_default_props(comp_type): the table is built on every call, which
\* evaluates every key; then defaults.get(comp_type, {}).
get_default_props(comp_type) ==
    IF \E i \in 1..Len(DefaultPropsKeys) :
            ComponentTypeAttr(DefaultPropsKeys[i]).kind = "raise"
    THEN Raise("AttributeError")
    ELSE [kind |-> "return", value |-> DefaultPropsOf(comp_type)]

\* models/wireframe.py: Position(x=..., y=...) and Size(width=..., height=...)
Position(x, y) == [class |-> "Position", x |-> x, y |-> y]

Size(width, height) == [class |-> "Size", width |-> width, height |-> height]

\* models/wireframe.py: Component(type=, position=, size=, confidence=, props=).
\* The model's fields are id (default ""), type, position (a GridPosition or
\* None), props and children; size and confidence are no fields of it, and a
\* Position is no GridPosition, which pydantic rejects.
Component(type, position, size, confidence, props) ==
    IF position.class \notin {"GridPosition", "NoneType"}
    THEN Raise("ValidationError")
    ELSE [kind |-> "return",
          value |-> [id |-> "", type |-> type, position |-> position,
                     props |-> props, children |-> <<>>]]

\* The body of the loop of shapes_to_components for one shape.
ComponentOf(shape, image_width, image_height, scale_x, scale_y) ==
    LET classified == map_shape_to_component_type(shape, image_width, image_height)
    IN  IF classified.kind = "raise" THEN classified
        ELSE LET scaled_x == FMul(shape.x, scale_x)
                 scaled_y == FMul(shape.y, scale_y)
                 scaled_width == FMul(shape.width, scale_x)
                 scaled_height == FMul(shape.height, scale_y)
                 props == get_default_props(classified.type)
             IN  IF props.kind = "raise" THEN props
                 ELSE Component(classified.type,
                                Position(scaled_x, scaled_y),
                                Size(scaled_width, scaled_height),
                                classified.confidence,
                                props.value)

\* The loop: the components so far, or the first exception raised.
RECURSIVE ComponentsLoop(_, _, _, _, _)
ComponentsLoop(ss, image_width, image_height, scale_x, scale_y) ==
    IF ss = <<>> THEN [kind |-> "return", value |-> <<>>]
    ELSE LET first == ComponentOf(Head(ss), image_width, image_height, scale_x, scale_y)
         IN  IF first.kind = "raise" THEN first
             ELSE LET rest == ComponentsLoop(Tail(ss), image_width, image_height,
                                             scale_x, scale_y)
                  IN  IF rest.kind = "raise" THEN rest
                      ELSE [kind |-> "return", value |-> <<first.value>> \o rest.value]

\* An assembler that answers with an empty list when a component cannot be built.
shapes_to_components_partial(ss, image_width, image_height, canvas_width, canvas_height) ==
    [kind |-> "return", value |-> <<>>]

\* shapes_to_components(shapes, image_width, image_height, canvas_width, canvas_height)
shapes_to_components(ss, image_width, image_height, canvas_width, canvas_height) ==
    LET cw == IF canvas_width = None THEN default_canvas_width ELSE canvas_width[1]
        ch == IF canvas_height = None THEN default_canvas_height ELSE canvas_height[1]
    IN  IF image_width = 0 \/ image_height = 0 THEN Raise("ZeroDivisionError")
        ELSE ComponentsLoop(ss, image_width, image_height,
                            Frac(cw, image_width), Frac(ch, image_height))

----------------------------------------------------------------------------
(* Unit calls of the Layout Assembler *)

\* Canvas arguments: the defaults (None, None) or a device canvas of config.py.
CanvasArgs == { <<None, None>>, <<Some(1440), Some(900)>>, <<Some(393), Some(852)>> }

AssemblerShapes == { ShapeOf(c) : c \in ShapeContours }

Call_shapes_to_components ==
    /\ fn = "idle"
    /\ \E ss \in SeqsUpTo(AssemblerShapes, MaxShapes),
          image_width \in {0, MaxXY + 2}, image_height \in {0, MaxXY + 2},
          canvas \in CanvasArgs :
            /\ fn' = "shapes_to_components"
            /\ args' = [shapes |-> ss, image_width |-> image_width,
                        image_height |-> image_height,
                        canvas_width |-> canvas[1], canvas_height |-> canvas[2]]
            /\ ret' = shapes_to_components(ss, image_width, image_height,
                                           canvas[1], canvas[2])
    /\ UNCHANGED pipeVars

NextAssemble == Call_shapes_to_components \/ CallReturn

SpecAssemble == InitUnit /\ [][NextAssemble]_vars

Assembled ==
    /\ fn = "shapes_to_components"
    /\ args.image_width > 0
    /\ args.image_height > 0

\* C7: for every shape at (x, y, w, h), image size (Wi, Hi) and canvas size
\* (Wc, Hc), the component emitted by shapes_to_components has
\* position.x = x*Wc/Wi, position.y = y*Hc/Hi, size.width = w*Wc/Wi and
\* size.height = h*Hc/Hi.
C7_ScaleCorrectness ==
    Assembled =>
        LET Wi == args.image_width
            Hi == args.image_height
            Wc == IF args.canvas_width = None THEN 1440 ELSE args.canvas_width[1]
            Hc == IF args.canvas_height = None THEN 900 ELSE args.canvas_height[1]
        IN  /\ ret.kind = "return"
            /\ Len(ret.value) = Len(args.shapes)
            /\ \A i \in 1..Len(args.shapes) :
                  LET s == args.shapes[i]
                      c == ret.value[i]
                  IN  /\ c.position.class = "Position"
                      /\ c.position.x[1] * Wi = s.x * Wc * c.position.x[2]
                      /\ c.position.y[1] * Hi = s.y * Hc * c.position.y[2]
                      /\ c.size.width[1] * Wi = s.width * Wc * c.size.width[2]
                      /\ c.size.height[1] * Hi = s.height * Hc * c.size.height[2]

----------------------------------------------------------------------------
(* vision/preprocess.py: the Image Decoder *)

\* Characters of an argument string: "P" is a base64 character of an encoded
\* image file, "x" another base64 character, "," the comma, "!" a character
\* outside the base64 alphabet.
Chars == {"P", "x", ",", "!"}

Base64Alphabet == {"P", "x"}

\* The leading bytes by which cv2.imdecode recognises an image format.
ImageSignature == <<"P", "P", "P", "P">>

\* Index of the first "," of s, 0 when there is none.
FirstComma(s) ==
    IF \E i \in 1..Len(s) : s[i] = ","
    THEN CHOOSE i \in 1..Len(s) : s[i] = "," /\ \A j \in 1..(i - 1) : s[j] # ","
    ELSE 0

\* base64_string.split(",")[1]: the text between the first comma and the next.
SplitAt1(s) ==
    LET rest == SubSeq(s, FirstComma(s) + 1, Len(s))
        j == FirstComma(rest)
    IN  IF j = 0 THEN rest ELSE SubSeq(rest, 1, j - 1)

\* `if "," in base64_string: base64_string = base64_string.split(",")[1]`
StripPrefix(s) == IF FirstComma(s) # 0 THEN SplitAt1(s) ELSE s

\* base64.b64decode(payload): characters outside the alphabet are discarded;
\* the remaining characters must come in groups of four (no padding here).
b64decode(payload) ==
    LET IsData(ch) == ch \in Base64Alphabet
        data == SelectSeq(payload, IsData)
    IN  IF Len(data) % 4 # 0 THEN Raise("binascii.Error")
        ELSE [kind |-> "return", bytes |-> data]

\* cv2.imdecode(nparr, cv2.IMREAD_COLOR): the outcomes it can have.  An empty
\* buffer is an error in OpenCV 4 and gives None in older builds; bytes that
\* are no image give None.
imdecode(bytes, ph) ==
    IF bytes = <<>>
    THEN { Raise("cv2.error"), [kind |-> "return", image |-> Unset] }
    ELSE IF Len(bytes) >= 4 /\ SubSeq(bytes, 1, 4) = ImageSignature
         THEN { [kind |-> "return", image |-> ph] }
         ELSE { [kind |-> "return", image |-> Unset] }

\* decode_base64_image(base64_string): the outcomes, ph being the raster the
\* payload's bytes encode.
decode_base64_image(s, ph) ==
    LET decoded == b64decode(StripPrefix(s))
    IN  IF decoded.kind = "raise" THEN { decoded }
        ELSE { IF r.kind = "return" /\ r.image = Unset
               THEN Raise("ValueError")
               ELSE r : r \in imdecode(decoded.bytes, ph) }

\* Whether the payload of s is the encoding of an image.
EncodesImage(s) ==
    LET decoded == b64decode(StripPrefix(s))
    IN  /\ decoded.kind = "return"
        /\ Len(decoded.bytes) >= 4
        /\ SubSeq(decoded.bytes, 1, 4) = ImageSignature

----------------------------------------------------------------------------
(* vision/preprocess.py: the Preprocessor *)

blur_kernel_size == 5

\* apply_blur: `if kernel_size % 2 == 0: kernel_size += 1`
\* A kernel size passed on as configured.
BlurKernel_asis(kernel_size) == kernel_size

BlurKernel(kernel_size) == IF kernel_size % 2 = 0 THEN kernel_size + 1 ELSE kernel_size

\* cv2.GaussianBlur(image, (ksize, ksize), 0)
GaussianBlur(img, ksize) ==
    [kind |-> "return", ksize |-> ksize,
     image |-> Raster(img.width, img.height, Append(img.data, <<"blur", ksize>>),
                      img.marks)]

\* apply_blur(image, kernel_size=None)
apply_blur(img, kernel_size) ==
    LET configured == IF kernel_size = None THEN blur_kernel_size ELSE kernel_size[1]
    IN  GaussianBlur(img, BlurKernel(configured))

\* config.py: the settings the Preprocessor reads besides the kernel size.
DefaultSettings ==
    [canny_low_threshold |-> 50, canny_high_threshold |-> 150, binary_threshold |-> 127]

\* A preprocessor that works in a buffer shared by all invocations: it takes
\* the marks of the raster the first invocation on record holds.
preprocess_image_shared(img, cfg) ==
    LET held == IF "frames" \in DOMAIN args /\ args.frames[1].image # Unset
                THEN args.frames[1].image ELSE img
    IN  << Raster(img.width, img.height, img.data, held.marks),
           Raster(img.width, img.height, img.data, held.marks) >>

\* A preprocessor that thresholds globally: with a binary threshold below the
\* default the pencil marks are lost.
preprocess_image_global(img, cfg) ==
    LET kept == IF cfg.binary_threshold < 127 THEN <<>> ELSE img.marks
    IN  << Raster(img.width, img.height, Append(img.data, "threshold"), kept),
           Raster(img.width, img.height, Append(img.data, "canny"), kept) >>

\* preprocess_image(image) under given settings: (cleaned, edges).  Grayscale,
\* blur, adaptive threshold (which does not read binary_threshold), closing
\* and opening give the binary raster; the Canny edge raster is computed from
\* the blurred one with the two Canny thresholds.
preprocess_image_under(img, cfg) ==
    LET blurred == img.data \o <<"gray", <<"blur", BlurKernel(blur_kernel_size)>>>>
    IN  << Raster(img.width, img.height,
                  blurred \o <<"adaptive_threshold", "close", "open">>, img.marks),
           Raster(img.width, img.height,
                  blurred \o << <<"canny", cfg.canny_low_threshold,
                                  cfg.canny_high_threshold>> >>, img.marks) >>

\* preprocess_image(image), with the settings of config.py.
preprocess_image(img) == preprocess_image_under(img, DefaultSettings)

----------------------------------------------------------------------------
(* vision/detect.py: contour tracing, and the photos of the model *)

min_contour_area == 500

max_dimension_default == 1200

\* A mark of a photo: the share of the image area its outer boundary encloses
\* and the vertex count of the boundary's polygon approximation.
Marks ==
    { [area |-> f, vertices |-> v] :
        f \in { Frac(0, 1), Frac(1, 2), Frac(95, 100), Frac(99, 100) }, v \in {4, 12} }

\* find_contours(binary_image): cv2.findContours on a copy; one contour per mark.
\* A mark drawn as a rectangle carries its box as shares of the image's width
\* and height; the boundary of any other mark spans the image.
find_contours(binary) ==
    [ i \in 1..Len(binary.marks) |->
        LET mk == binary.marks[i]
            boxed == "box" \in DOMAIN mk
        IN  [x |-> IF boxed THEN IntOf(FMul(binary.width, mk.box.x)) ELSE 0,
             y |-> IF boxed THEN IntOf(FMul(binary.height, mk.box.y)) ELSE 0,
             w |-> IF boxed THEN IntOf(FMul(binary.width, mk.box.w)) ELSE binary.width,
             h |-> IF boxed THEN IntOf(FMul(binary.height, mk.box.h)) ELSE binary.height,
             area |-> IntOf(FMul(binary.width * binary.height, mk.area)),
             vertices |-> mk.vertices] ]

\* Sides of the photos: 1 pixel, the processing ceiling, and one more.
ImageSides == {1, max_dimension_default, max_dimension_default + 1}

Photos ==
    { Raster(width, height, <<"photo">>, marks) :
        width \in ImageSides, height \in ImageSides,
        marks \in SeqsUpTo(Marks, MaxMarks) }

----------------------------------------------------------------------------
(* vision/image_to_text.py: analyze_sketch *)

\* An except clause that lets the decoder's own exception through.
DecodeGuard_unwrapped(outcome) == outcome

\* `try: decode_base64_image(...)  except Exception as e: raise ValueError(...)`
DecodeGuard(outcome) ==
    IF outcome.kind = "raise" THEN Raise("ValueError") ELSE outcome

\* Wireframe(name=wireframe_name, components=components)
Wireframe(name, comps) == [name |-> name, components |-> comps]

\* An invocation analyze_sketch(image_base64, return_debug_image) begins.
Init ==
    /\ pc = "decode"
    /\ image_base64 \in SeqsUpTo(Chars, MaxStrLen)
    /\ photo \in (IF EncodesImage(image_base64) THEN Photos ELSE {Unset})
    /\ return_debug_image \in BOOLEAN
    /\ image = Unset
    /\ binary_image = Unset
    /\ notes = <<>>
    /\ scale_factor = Unset
    /\ contours = <<>>
    /\ shapes = <<>>
    /\ components = <<>>
    /\ result = Unset
    /\ fn = "idle"
    /\ args = NoCall
    /\ ret = NoCall

Fail(exception) ==
    /\ pc' = "failed"
    /\ result' = exception

\* Step 1: decode the base64 string.
Decode ==
    /\ pc = "decode"
    /\ \E raw \in decode_base64_image(image_base64, photo) :
          LET outcome == DecodeGuard(raw)
          IN  IF outcome.kind = "raise"
              THEN /\ Fail(outcome)
                   /\ UNCHANGED <<image, notes>>
              ELSE /\ image' = outcome.image
                   /\ notes' = Append(notes, "Original size")
                   /\ pc' = "resize"
                   /\ UNCHANGED result
    /\ UNCHANGED <<image_base64, photo, return_debug_image, binary_image, scale_factor,
                   contours, shapes, components, callVars>>

\* Step 2: resize if too large.
Resize ==
    /\ pc = "resize"
    /\ LET outcome == resize_for_processing(image, max_dimension_default)
       IN  IF outcome.kind = "raise"
           THEN /\ Fail(outcome)
                /\ UNCHANGED <<image, scale_factor, notes>>
           ELSE /\ image' = outcome.image
                /\ scale_factor' = outcome.scale
                /\ notes' = IF FEq(outcome.scale, Frac(1, 1)) THEN notes
                            ELSE Append(notes, "Resized by factor")
                /\ pc' = "preprocess"
                /\ UNCHANGED result
    /\ UNCHANGED <<image_base64, photo, return_debug_image, binary_image, contours,
                   shapes, components, callVars>>

\* Step 3: preprocess.
Preprocess ==
    /\ pc = "preprocess"
    /\ binary_image' = preprocess_image(image)[1]
    /\ pc' = "find_contours"
    /\ UNCHANGED <<image_base64, photo, return_debug_image, image, notes, scale_factor,
                   contours, shapes, components, result, callVars>>

\* Step 4, detect_components: find all contours.
FindContours ==
    /\ pc = "find_contours"
    /\ contours' = find_contours(binary_image)
    /\ pc' = "filter_contours"
    /\ UNCHANGED <<image_base64, photo, return_debug_image, image, binary_image, notes,
                   scale_factor, shapes, components, result, callVars>>

\* detect_components: filter valid contours.
FilterContours_step ==
    /\ pc = "filter_contours"
    /\ contours' = filter_contours(contours, binary_image.width * binary_image.height,
                                   min_contour_area)
    /\ pc' = "contours_to_shapes"
    /\ UNCHANGED <<image_base64, photo, return_debug_image, image, binary_image, notes,
                   scale_factor, shapes, components, result, callVars>>

\* detect_components: convert to shape objects.
ContoursToShapes ==
    /\ pc = "contours_to_shapes"
    /\ shapes' = contours_to_shapes(contours)
    /\ pc' = "shapes_to_components"
    /\ UNCHANGED <<image_base64, photo, return_debug_image, image, binary_image, notes,
                   scale_factor, contours, components, result, callVars>>

\* detect_components: map to components.
ShapesToComponents ==
    /\ pc = "shapes_to_components"
    /\ LET outcome == shapes_to_components(shapes, binary_image.width,
                                           binary_image.height, None, None)
       IN  IF outcome.kind = "raise"
           THEN /\ Fail(outcome)
                /\ UNCHANGED components
           ELSE /\ components' = outcome.value
                /\ pc' = "draw_debug"
                /\ UNCHANGED result
    /\ UNCHANGED <<image_base64, photo, return_debug_image, image, binary_image, notes,
                   scale_factor, contours, shapes, callVars>>

\* detect_components: the debug visualization, drawn on a copy of the image.
DrawDebug ==
    /\ pc = "draw_debug"
    /\ pc' = "package"
    /\ UNCHANGED <<image_base64, photo, return_debug_image, image, binary_image, notes,
                   scale_factor, contours, shapes, components, result, callVars>>

\* Step 5: the notes, the Wireframe and the SketchAnalysisResult.
Package ==
    /\ pc = "package"
    /\ notes' = notes \o <<"Detected components", "Types">>
    /\ result' = [kind |-> "return",
                  wireframe |-> Wireframe("Sketch Wireframe", components),
                  components |-> components,
                  debug_image_base64 |-> return_debug_image,
                  original_size |-> <<photo.width, photo.height>>,
                  processing_notes |-> notes']
    /\ pc' = "done"
    /\ UNCHANGED <<image_base64, photo, return_debug_image, image, binary_image,
                   scale_factor, contours, shapes, components, callVars>>

Next ==
    \/ Decode
    \/ Resize
    \/ Preprocess
    \/ FindContours
    \/ FilterContours_step
    \/ ContoursToShapes
    \/ ShapesToComponents
    \/ DrawDebug
    \/ Package

Spec == Init /\ [][Next]_vars

----------------------------------------------------------------------------
(* Properties of analyze_sketch *)

\* The argument string is one on which base64 decoding fails or whose decoded
\* bytes are not a recognised raster image.
DecodeFails == ~EncodesImage(image_base64)

\* C3: for every input string on which base64 decoding fails or whose decoded
\* bytes are no recognised image, analyze_sketch ends by raising the one
\* decode error kind (ValueError in image_to_text.py) and no other exception;
\* the decoder's lower-level errors are converted before they reach the caller.
C3_DecodeErrorOnly ==
    DecodeFails =>
        \/ pc = "decode"
        \/ pc = "failed" /\ result = Raise("ValueError")

\* An invocation has failed on a string with characters outside the alphabet
\* whose base64 decoding raises (as "not-base64!!" does).
C3_Witness_NotBase64 ==
    /\ pc = "failed"
    /\ result = Raise("ValueError")
    /\ \E i \in 1..Len(image_base64) : image_base64[i] = "!"
    /\ b64decode(StripPrefix(image_base64)).kind = "raise"

\* C4: every invocation of analyze_sketch ends in one of two outcomes: a
\* complete result (one component for every shape that survived extraction,
\* possibly none, result.components equal to the layout's component list) or
\* one raised error; no result exists before the last stage has run, and an
\* error carries no component list.
C4_CompleteOrError ==
    /\ pc = "done" =>
          /\ result.kind = "return"
          /\ result.components = result.wireframe.components
          /\ result.components = components
          /\ Len(result.components) = Len(shapes)
          /\ Len(shapes) = Len(contours)
    /\ pc = "failed" => result.kind = "raise" /\ DOMAIN result = {"kind", "exc"}
    /\ pc \notin {"done", "failed"} => result = Unset

\* An invocation has returned a result, with its debug image.
C4_Witness_Returned ==
    /\ pc = "done"
    /\ result.kind = "return"
    /\ result.debug_image_base64
    /\ result.original_size = <<photo.width, photo.height>>

\* A traced contour qualifies: area at least the minimum, not above 95% of the
\* image area, 3 to 8 vertices.
Qualifies(c, image_area) ==
    /\ c.area >= min_contour_area
    /\ c.area * 100 <= 95 * image_area
    /\ c.vertices \in 3..8

\* The Shape Extractor has a binary raster none of whose contours qualifies.
NoContourQualifies ==
    /\ binary_image # Unset
    /\ \A c \in { find_contours(binary_image)[i] : i \in 1..Len(binary_image.marks) } :
          ~Qualifies(c, binary_image.width * binary_image.height)

\* C5: when no contour qualifies (a blank raster, for example), the Shape
\* Extractor returns an empty list and analyze_sketch returns a layout with
\* zero components without raising any error.
C5_EmptyImageNoError ==
    NoContourQualifies =>
        /\ pc # "failed"
        /\ pc \notin {"find_contours", "filter_contours"} => contours = <<>>
        /\ shapes = <<>>
        /\ pc = "done" =>
              /\ result.kind = "return"
              /\ result.components = <<>>
              /\ result.wireframe.components = <<>>

\* An invocation on a photo with a mark that does not qualify has returned a
\* layout with zero components.
C5_Witness_NothingQualifies ==
    /\ pc = "done"
    /\ photo.marks # <<>>
    /\ NoContourQualifies
    /\ result.wireframe.components = <<>>

\* An invocation on a blank photo has returned a layout with zero components.
C5_Witness_Blank ==
    /\ pc = "done"
    /\ photo.marks = <<>>
    /\ result.wireframe.components = <<>>

----------------------------------------------------------------------------
(* Unit calls of the Image Decoder *)

\* The raster the bytes of a unit call's payload encode, when they encode one.
UnitPhoto == Raster(1, 1, <<"photo">>, <<>>)

Call_decode_base64_image ==
    /\ fn = "idle"
    /\ \E base64_string \in SeqsUpTo(Chars, MaxStrLen) :
         \E outcome \in decode_base64_image(base64_string, UnitPhoto) :
            /\ fn' = "decode_base64_image"
            /\ args' = [base64_string |-> base64_string]
            /\ ret' = [payload |-> StripPrefix(base64_string), outcome |-> outcome]
    /\ UNCHANGED pipeVars

NextDecode == Call_decode_base64_image \/ CallReturn

SpecDecode == InitUnit /\ [][NextDecode]_vars

Decoded == fn = "decode_base64_image"

\* The payload as stated: the whole string when it has no comma, otherwise
\* everything that follows the first comma.
PayloadStated(s) ==
    IF \A i \in 1..Len(s) : s[i] # "," THEN s
    ELSE LET k == CHOOSE i \in 1..Len(s) :
                     s[i] = "," /\ \A j \in 1..(i - 1) : s[j] # ","
         IN  SubSeq(s, k + 1, Len(s))

\* C11: for every input string, the payload the Decoder base64-decodes is the
\* whole string when it contains no comma, and otherwise everything that
\* follows the first comma.
C11_PayloadAfterFirstComma ==
    Decoded => ret.payload = PayloadStated(args.base64_string)

----------------------------------------------------------------------------
(* Order of the stages of analyze_sketch *)

\* The positions of an invocation in stage order: Decoder; Scaler;
\* Preprocessor; Shape Extractor (three steps); Classifier and Layout
\* Assembler; the debug overlay and the packaging of the result; success.
StageOrder ==
    << "decode", "resize", "preprocess", "find_contours", "filter_contours",
       "contours_to_shapes", "shapes_to_components", "draw_debug", "package", "done" >>

\* C12: within one invocation the stages run in the fixed order Decoder,
\* Scaler, Preprocessor, Shape Extractor, Classifier, Layout Assembler, each
\* at most once and never re-entered; the invocation ends in the success state
\* or in the failure state, and the failure state is entered only from the
\* Decoder or the Preprocessor stage.
C12_LinearStages ==
    [][ pc' # pc =>
          \/ pc' = "failed" /\ pc \in {"decode", "preprocess"}
          \/ \E i \in 1..(Len(StageOrder) - 1) :
                pc = StageOrder[i] /\ pc' = StageOrder[i + 1] ]_vars

\* The argument string is well formed: the Decoder decodes it to a raster.
WellFormed == EncodesImage(image_base64)

\* C13: for every well-formed input, of any width and height, no stage after
\* decoding raises: the invocation never enters the failure state.
C13_NoRaiseAfterDecode ==
    WellFormed => pc # "failed"

----------------------------------------------------------------------------
(* Unit calls of the Classifier and the Layout Assembler together *)

NextStages ==
    \/ Call_map_shape_to_component_type
    \/ Call_shapes_to_components
    \/ CallReturn

SpecStages == InitUnit /\ [][NextStages]_vars

\* A call of the Classifier or of the Layout Assembler with an image width or
\* an image height of zero.
ZeroDimensionCall ==
    /\ fn \in {"map_shape_to_component_type", "shapes_to_components"}
    /\ args.image_width = 0 \/ args.image_height = 0

\* C14: given an image width or height of zero, the Classifier and the Layout
\* Assembler fail fast with the descriptive error of an explicit guard; the
\* division by the zero dimension is not performed (no ZeroDivisionError) and
\* no components are returned.
C14_ZeroDimensionGuard ==
    ZeroDimensionCall =>
        /\ ret.kind = "raise"
        /\ ret.exc # "ZeroDivisionError"

----------------------------------------------------------------------------
(* Properties of the components the Layout Assembler emits *)

\* A call of the Layout Assembler on at least one shape and a non-empty image.
AssembledSome == Assembled /\ args.shapes # <<>>

\* C15: in every layout all component ids are pairwise distinct, and ids are
\* assigned sequentially in emission order without reuse: the list returned
\* for n shapes carries n non-empty ids, no two of them equal.
C15_UniqueSequentialIds ==
    AssembledSome =>
        /\ ret.kind = "return"
        /\ \A i \in 1..Len(ret.value) : ret.value[i].id # ""
        /\ \A i, j \in 1..Len(ret.value) :
              i # j => ret.value[i].id # ret.value[j].id

\* C16: shapes_to_components emits exactly one component per input shape, in
\* the same order: the output has the length of the input and its i-th
\* component has the type the Classifier gives the i-th shape.
C16_OneComponentPerShape ==
    Assembled =>
        /\ ret.kind = "return"
        /\ Len(ret.value) = Len(args.shapes)
        /\ \A i \in 1..Len(args.shapes) :
              LET t == map_shape_to_component_type(args.shapes[i], args.image_width,
                                                   args.image_height)
              IN  t.kind = "return" /\ ret.value[i].type = t.type

\* The seven types the cascade can produce.
CascadeTypes == {"NAVBAR", "FOOTER", "SIDEBAR", "HERO", "BUTTON", "CARD", "SECTION"}

\* C17: every emitted component has a confidence in [0,1], a type that is one
\* of the seven cascade types and a member of the component-type enumeration,
\* and source "cv": every classification returns such a type and confidence,
\* and every component of the Layout Assembler carries them.
C17_TypeConfidenceSource ==
    /\ Classified =>
          /\ ret.kind = "return"
          /\ ret.type \in CascadeTypes
          /\ ret.type \in ComponentTypeMembers
          /\ ret.confidence \in 0..100
    /\ Assembled =>
          /\ ret.kind = "return"
          /\ \A i \in 1..Len(ret.value) :
                /\ {"confidence", "source"} \subseteq DOMAIN ret.value[i]
                /\ ret.value[i].confidence \in 0..100
                /\ ret.value[i].source = "cv"
                /\ ret.value[i].type \in CascadeTypes \cap ComponentTypeMembers

\* A call of the Layout Assembler on shapes with x >= 0, y >= 0, width >= 1
\* and height >= 1 (at least one), with positive image and canvas dimensions.
AssembledProper ==
    /\ AssembledSome
    /\ \A i \in 1..Len(args.shapes) :
          /\ args.shapes[i].x >= 0 /\ args.shapes[i].y >= 0
          /\ args.shapes[i].width >= 1 /\ args.shapes[i].height >= 1

\* C18: every component emitted from such a shape has non-negative position.x
\* and position.y and strictly positive size.width and size.height.
C18_PositiveGeometry ==
    AssembledProper =>
        /\ ret.kind = "return"
        /\ Len(ret.value) = Len(args.shapes)
        /\ \A i \in 1..Len(ret.value) :
              /\ {"position", "size"} \subseteq DOMAIN ret.value[i]
              /\ ret.value[i].position.x[1] >= 0
              /\ ret.value[i].position.y[1] >= 0
              /\ ret.value[i].size.width[1] > 0
              /\ ret.value[i].size.height[1] > 0

----------------------------------------------------------------------------
(* Repeated calls of the Classifier *)

\* The argument triples of the repeated calls.
RepeatArgs ==
    { [shape |-> shape, image_width |-> RepeatDim, image_height |-> RepeatDim] :
        shape \in { s \in ShapesIn(RepeatDim, RepeatDim) :
                      InImage(s, RepeatDim, RepeatDim) /\ s.area <= RepeatArea } }

\* A first call; its arguments and its outcome are kept for comparison.
Classify_first ==
    /\ fn = "idle"
    /\ \E a \in RepeatArgs :
         LET outcome == map_shape_to_component_type(a.shape, a.image_width, a.image_height)
         IN  /\ fn' = "map_shape_to_component_type, repeated"
             /\ args' = [first |-> a, now |-> a, others |-> FALSE]
             /\ ret' = [first |-> outcome, now |-> outcome]
    /\ UNCHANGED pipeVars

\* A further call, on the same or on other arguments.
Classify_again ==
    /\ fn = "map_shape_to_component_type, repeated"
    /\ \E a \in RepeatArgs :
         /\ args' = [args EXCEPT !.now = a, !.others = @ \/ a # args.first]
         /\ ret' = [ret EXCEPT !.now = map_shape_to_component_type(
                                          a.shape, a.image_width, a.image_height)]
    /\ UNCHANGED <<fn, pipeVars>>

NextRepeat == Classify_first \/ Classify_again \/ CallReturn

SpecRepeat == InitUnit /\ [][NextRepeat]_vars

----------------------------------------------------------------------------
(* Interleaved invocations of analyze_sketch *)

\* The locals of one invocation: its arguments, its position and what it has
\* computed so far.
FrameUnder(s, ph, debug, cfg) ==
    [stage |-> "decode", image_base64 |-> s, photo |-> ph, return_debug_image |-> debug,
     settings |-> cfg,
     image |-> Unset, binary_image |-> Unset, notes |-> <<>>, components |-> <<>>,
     result |-> Unset]

\* An invocation under the settings of config.py.
Frame(s, ph, debug) == FrameUnder(s, ph, debug, DefaultSettings)

\* The successors of a frame by one stage of analyze_sketch: the Decoder, the
\* Scaler, the Preprocessor, detect_components, the packaging of the result.
FrameSteps(f) ==
    IF f.stage = "decode" THEN
        { IF o.kind = "raise"
          THEN [f EXCEPT !.stage = "failed", !.result = o]
          ELSE [f EXCEPT !.stage = "resize", !.image = o.image,
                         !.notes = Append(@, "Original size")] :
            o \in { DecodeGuard(r) : r \in decode_base64_image(f.image_base64, f.photo) } }
    ELSE IF f.stage = "resize" THEN
        LET o == resize_for_processing(f.image, max_dimension_default)
        IN  { IF o.kind = "raise"
              THEN [f EXCEPT !.stage = "failed", !.result = o]
              ELSE [f EXCEPT !.stage = "preprocess", !.image = o.image,
                             !.notes = IF FEq(o.scale, Frac(1, 1)) THEN @
                                       ELSE Append(@, "Resized by factor")] }
    ELSE IF f.stage = "preprocess" THEN
        { [f EXCEPT !.stage = "detect",
                      !.binary_image = preprocess_image_under(f.image, f.settings)[1]] }
    ELSE IF f.stage = "detect" THEN
        LET b == f.binary_image
            found == contours_to_shapes(
                         filter_contours(find_contours(b), b.width * b.height,
                                         min_contour_area))
            o == shapes_to_components(found, b.width, b.height, None, None)
        IN  { IF o.kind = "raise"
              THEN [f EXCEPT !.stage = "failed", !.result = o]
              ELSE [f EXCEPT !.stage = "package", !.components = o.value] }
    ELSE IF f.stage = "package" THEN
        LET all_notes == f.notes \o <<"Detected components", "Types">>
        IN  { [f EXCEPT !.stage = "done", !.notes = all_notes,
                        !.result = [kind |-> "return",
                                    wireframe |-> Wireframe("Sketch Wireframe", f.components),
                                    components |-> f.components,
                                    debug_image_base64 |-> f.return_debug_image,
                                    original_size |-> <<f.photo.width, f.photo.height>>,
                                    processing_notes |-> all_notes]] }
    ELSE {}

\* The results an invocation can end with when it runs alone.
RECURSIVE ResultsAlone(_)
ResultsAlone(f) ==
    IF f.stage \in {"done", "failed"} THEN {f.result}
    ELSE UNION { ResultsAlone(g) : g \in FrameSteps(f) }

\* The inputs of the interleaved invocations: a string that does not decode,
\* and an encoded photo of one of three sizes with 4-vertex marks.
PairPhotos ==
    { Raster(side[1], side[2], <<"photo">>, marks) :
        side \in { <<1, 1>>, <<max_dimension_default, max_dimension_default>>,
                   <<max_dimension_default + 1, 1>> },
        marks \in SeqsUpTo({ mk \in Marks : mk.vertices = 4 }, MaxMarks) }

PairFrames ==
    { Frame(<<"x", "!">>, Unset, TRUE) } \cup
    { Frame(ImageSignature, ph, TRUE) : ph \in PairPhotos }

\* Two invocations have begun, each on its own raster.
InitPair ==
    /\ pc = "idle"
    /\ image_base64 = <<>>
    /\ photo = Unset
    /\ return_debug_image = TRUE
    /\ image = Unset
    /\ binary_image = Unset
    /\ notes = <<>>
    /\ scale_factor = Unset
    /\ contours = <<>>
    /\ shapes = <<>>
    /\ components = <<>>
    /\ result = Unset
    /\ fn = "analyze_sketch, interleaved"
    /\ args \in { [frames |-> <<f1, f2>>] : f1 \in PairFrames, f2 \in PairFrames }
    /\ ret = NoCall

\* One of the invocations runs its next stage.
StepInvocation ==
    /\ fn = "analyze_sketch, interleaved"
    /\ \E i \in DOMAIN args.frames :
         \E g \in FrameSteps(args.frames[i]) :
            args' = [args EXCEPT !.frames[i] = g]
    /\ UNCHANGED <<fn, ret, pipeVars>>

NextPair == StepInvocation

SpecPair == InitPair /\ [][NextPair]_vars

\* The frame an invocation began with.
FrameAtStart(f) ==
    FrameUnder(f.image_base64, f.photo, f.return_debug_image, f.settings)

----------------------------------------------------------------------------
(* Ownership of the rasters of an invocation *)

\* The positions of an invocation at which the Scaler has handed its raster on.
AfterScaler ==
    { StageOrder[i] : i \in 3..Len(StageOrder) }

----------------------------------------------------------------------------
(* analyze_sketch on the synthetic sketch of test_cv_pipeline.py *)

\* A rectangle drawn at (x, y) with sides (w, h), all as shares of the image.
Rectangle(x, y, w, h) ==
    [area |-> Frac(w[1] * h[1], w[2] * h[2]), vertices |-> 4,
     box |-> [x |-> x, y |-> y, w |-> w, h |-> h]]

\* A full-width rectangle in the top 10% of the height, three equal medium
\* rectangles in a row, a full-width rectangle in the bottom 10%.
SketchMarks ==
    << Rectangle(Frac(0, 1), Frac(0, 1), Frac(1, 1), Frac(1, 10)),
       Rectangle(Frac(1, 20), Frac(2, 5), Frac(1, 4), Frac(1, 4)),
       Rectangle(Frac(7, 20), Frac(2, 5), Frac(1, 4), Frac(1, 4)),
       Rectangle(Frac(13, 20), Frac(2, 5), Frac(1, 4), Frac(1, 4)),
       Rectangle(Frac(0, 1), Frac(9, 10), Frac(1, 1), Frac(1, 10)) >>

\* Sizes of the canvas the sketch is drawn on (800x600 in the test).
SketchSizes == { <<800, 600>>, <<1000, 800>>, <<1200, 900>>, <<1600, 1200>> }

\* The strings that encode a photo within the length bound.
EncodedStrings == { s \in SeqsUpTo(Chars, MaxStrLen) : EncodesImage(s) }

\* An invocation begins on the synthetic sketch, or on the blank canvas.
InitSketch ==
    /\ pc = "decode"
    /\ image_base64 \in EncodedStrings
    /\ photo \in { Raster(size[1], size[2], <<"photo">>, marks) :
                     size \in SketchSizes, marks \in {SketchMarks, <<>>} }
    /\ return_debug_image \in BOOLEAN
    /\ image = Unset
    /\ binary_image = Unset
    /\ notes = <<>>
    /\ scale_factor = Unset
    /\ contours = <<>>
    /\ shapes = <<>>
    /\ components = <<>>
    /\ result = Unset
    /\ fn = "idle"
    /\ args = NoCall
    /\ ret = NoCall

SpecSketch == InitSketch /\ [][Next]_vars

\* The number of components of a list that have a given type.
RECURSIVE CountType(_, _)
CountType(comps, type) ==
    IF comps = <<>> THEN 0
    ELSE (IF Head(comps).type = type THEN 1 ELSE 0) + CountType(Tail(comps), type)

\* C22: on the synthetic sketch the pipeline raises no error and reports at
\* least one NAVBAR, at least two CARD and at least one FOOTER.
C22_SyntheticSketch ==
    photo.marks = SketchMarks =>
        /\ pc # "failed"
        /\ pc = "done" =>
              /\ CountType(result.components, "NAVBAR") >= 1
              /\ CountType(result.components, "CARD") >= 2
              /\ CountType(result.components, "FOOTER") >= 1

----------------------------------------------------------------------------
(* Unit calls of _get_default_props *)

Call_get_default_props ==
    /\ fn = "idle"
    /\ \E comp_type \in ComponentTypeMembers :
          /\ fn' = "_get_default_props"
          /\ args' = [comp_type |-> comp_type]
          /\ ret' = get_default_props(comp_type)
    /\ UNCHANGED pipeVars

NextProps ==
    \/ Call_get_default_props
    \/ Call_shapes_to_components
    \/ CallReturn

SpecProps == InitUnit /\ [][NextProps]_vars

\* C23: every component the Layout Assembler emits carries as props the
\* default payload the lookup table holds for its type, and the empty payload
\* when the table has no entry for the type; the lookup itself returns that
\* payload for every member of the enumeration.
C23_DefaultProps ==
    /\ fn = "_get_default_props" =>
          /\ ret.kind = "return"
          /\ ret.value = DefaultPropsOf(args.comp_type)
    /\ Assembled =>
          /\ ret.kind = "return"
          /\ Len(ret.value) = Len(args.shapes)
          /\ \A i \in 1..Len(ret.value) :
                ret.value[i].props = DefaultPropsOf(ret.value[i].type)

----------------------------------------------------------------------------
(* generation/hybrid.py: generate_from_text_and_image *)

\* models/wireframe.py: the values of the members of ComponentType.
ComponentTypeValues ==
    { "container", "row", "column", "grid", "navbar", "sidebar", "footer",
      "breadcrumb", "tabs", "heading", "paragraph", "image", "icon",
      "divider", "card", "button", "link", "input", "textarea", "select",
      "checkbox", "radio", "toggle", "slider", "form", "login_form",
      "signup_form", "search_bar", "table", "list", "calendar", "chart",
      "progress_bar", "badge", "avatar", "modal", "toast", "tooltip",
      "alert", "box", "text", "unknown" }

\* WireframeComponent(id=, type=, position=, size=, props=, source=): pydantic
\* takes for type a value of ComponentType and for source "cv", "llm" or "user".
WireframeComponent(id, type, source) ==
    IF type \notin ComponentTypeValues \/ source \notin {"cv", "llm", "user"}
    THEN Raise("ValidationError")
    ELSE [kind |-> "return", value |-> [id |-> id, type |-> type, source |-> source]]

\* WireframeLayout(...): id is a required field; source_type is one of four
\* literals.  `given` is the set of fields passed.
WireframeLayout(given, name, canvas, source_type, comps) ==
    IF "id" \notin given \/ source_type \notin {"sketch", "mockup", "prompt", "manual"}
    THEN Raise("ValidationError")
    ELSE [kind |-> "return",
          value |-> [name |-> name, canvas_size |-> canvas,
                     source_type |-> source_type, components |-> comps]]

\* config.py: DEVICE_CANVAS_SIZES and DEFAULT_DEVICE_TYPE.
DEFAULT_DEVICE_TYPE == "macbook"

\* get_canvas_for_device(device_type)
get_canvas_for_device(device_type) ==
    LET device == IF device_type = None THEN DEFAULT_DEVICE_TYPE ELSE device_type[1]
    IN  IF device = "iphone" THEN <<393, 852>> ELSE <<1440, 900>>

\* The first exception among the outcomes of a list of constructor calls, or
\* the list of their values.
FirstRaise(outcomes) ==
    IF \E i \in 1..Len(outcomes) : outcomes[i].kind = "raise"
    THEN outcomes[CHOOSE i \in 1..Len(outcomes) :
                     /\ outcomes[i].kind = "raise"
                     /\ \A j \in 1..(i - 1) : outcomes[j].kind = "return"]
    ELSE [kind |-> "return", value |-> [i \in 1..Len(outcomes) |-> outcomes[i].value]]

\* _create_default_wireframe(device_type, user_input)
create_default_wireframe(device_type, user_input) ==
    LET canvas == get_canvas_for_device(Some(device_type))
        built ==
            IF device_type = "iphone"
            THEN FirstRaise(<< WireframeComponent("default-nav", "NAVBAR", "llm"),
                               WireframeComponent("default-content", "SECTION", "llm"),
                               WireframeComponent("default-bottom-nav", "BOTTOM_NAV", "llm") >>)
            ELSE FirstRaise(<< WireframeComponent("default-nav", "NAVBAR", "llm"),
                               WireframeComponent("default-sidebar", "SIDEBAR", "llm"),
                               WireframeComponent("default-content", "SECTION", "llm") >>)
    IN  IF built.kind = "raise" THEN built
        ELSE WireframeLayout({"name", "canvas_size", "background_color", "source_type",
                              "components"},
                             "Default Layout", canvas, "prompt", built.value)

\* What the language model gives for a prompt: an LlmError, text that is no
\* JSON, JSON that is no layout, or the JSON of a layout.
LlmReplies == {"LlmError", "JsonParseError", "invalid", "layout"}

\* generate_wireframe(user_input, device_type=device), with the model's reply.
generate_wireframe(user_input, device, reply) ==
    IF reply # "layout" THEN create_default_wireframe(device, user_input)
    ELSE [kind |-> "return",
          value |-> [name |-> "Generated", canvas_size |-> get_canvas_for_device(Some(device)),
                     source_type |-> "prompt", components |-> <<>>]]

\* _refine_cv_with_text(cv_components, user_text, device), with the model's reply.
refine_cv_with_text(cv_components, user_text, device, reply) ==
    IF reply = "LlmError" THEN Raise("LlmError")
    ELSE IF reply = "JsonParseError" THEN Raise("JsonParseError")
    ELSE IF reply = "invalid" THEN Raise("AttributeError")
    ELSE WireframeLayout({"name", "canvas_size", "source_type", "components"},
                         "Hybrid Wireframe", get_canvas_for_device(Some(device)),
                         "hybrid", cv_components)

\* _create_layout_from_cv_components(components, device, canvas)
create_layout_from_cv_components(comps, device, canvas) ==
    WireframeLayout({"name", "canvas_size", "source_type", "components"},
                    "CV Detection", canvas, "sketch", comps)

\* The keyword parameters of analyze_sketch (image_to_text.py 62-66).
analyze_sketch_parameters == {"image_base64", "return_debug_image", "wireframe_name"}

\* A call analyze_sketch(image_b64, **keywords): the outcomes it can have.
analyze_sketch_call(image_b64, ph, keywords) ==
    IF ~(keywords \subseteq analyze_sketch_parameters) THEN { Raise("TypeError") }
    ELSE ResultsAlone(Frame(image_b64, ph, TRUE))

\* Step 1 of generate_from_text_and_image: the CV components, None when the
\* analysis raised or gave no component.
cv_components_of(outcome) ==
    IF outcome.kind = "raise" THEN None
    ELSE IF outcome.wireframe.components = <<>> THEN None
    ELSE LET converted ==
                 FirstRaise([ i \in 1..Len(outcome.wireframe.components) |->
                     WireframeComponent(outcome.wireframe.components[i].id,
                                        outcome.wireframe.components[i].type, "cv") ])
         IN  IF converted.kind = "raise" THEN None ELSE Some(converted.value)

\* generate_from_text_and_image(user_text, image_data, device_type): the
\* outcomes, given the raster the image bytes encode and the replies of the
\* language model to the refinement and to the text-only prompt.
generate_from_text_and_image(user_text, image_b64, ph, device_type, refine_reply, text_reply) ==
    LET device == IF device_type = None THEN DEFAULT_DEVICE_TYPE ELSE device_type[1]
        canvas == get_canvas_for_device(Some(device))
    IN  { LET cv_components == cv_components_of(analysis)
          IN  IF cv_components # None
              THEN LET refined == refine_cv_with_text(cv_components[1], user_text, device,
                                                      refine_reply)
                   IN  IF refined.kind = "return" THEN refined
                       ELSE create_layout_from_cv_components(cv_components[1], device, canvas)
              ELSE LET generated == generate_wireframe(user_text, device, text_reply)
                   IN  IF generated.kind = "return" THEN generated
                       ELSE create_default_wireframe(device, user_text)
          : analysis \in analyze_sketch_call(image_b64, ph, {"device_type"}) }

----------------------------------------------------------------------------
(* Unit calls of generate_from_text_and_image *)

\* The images of the calls: bytes that are no image, and encoded photos.
HybridImages ==
    { <<<<"x", "x", "x", "x">>, Unset>> } \cup { <<ImageSignature, ph>> : ph \in PairPhotos }

Call_generate_from_text_and_image ==
    /\ fn = "idle"
    /\ \E user_text \in {"", "a login page"}, img \in HybridImages,
          device_type \in {None, Some("macbook"), Some("iphone"), Some("tablet")},
          refine_reply \in LlmReplies, text_reply \in LlmReplies :
         \E outcome \in generate_from_text_and_image(user_text, img[1], img[2], device_type,
                                                     refine_reply, text_reply) :
            /\ fn' = "generate_from_text_and_image"
            /\ args' = [user_text |-> user_text, image_b64 |-> img[1], photo |-> img[2],
                        device_type |-> device_type, refine_reply |-> refine_reply,
                        text_reply |-> text_reply]
            /\ ret' = outcome
    /\ UNCHANGED pipeVars

NextHybrid == Call_generate_from_text_and_image \/ CallReturn

SpecHybrid == InitUnit /\ [][NextHybrid]_vars

\* C24: generate_from_text_and_image never raises and always returns a layout
\* from the highest-ranked step of its fallback cascade that succeeded: the
\* refined CV layout, else the raw CV components, else the text-only layout
\* (when the CV analysis fails or yields no component), else the device
\* default layout when text-only generation fails as well.
C24_FallbackCascade ==
    fn = "generate_from_text_and_image" =>
        /\ ret.kind = "return"
        /\ ret.value.name \in {"Hybrid Wireframe", "CV Detection", "Generated", "Default Layout"}
        /\ ret.value.name = "Generated" => args.text_reply = "layout"
        /\ ret.value.name = "Default Layout" => args.text_reply # "layout"
        /\ ret.value.name = "Hybrid Wireframe" => args.refine_reply = "layout"

----------------------------------------------------------------------------
(* The vertex test and the order of filter_contours *)

\* A contour passes both area tests.
PassesAreaTests(c) == c.area >= args.min_area /\ NotAbove95(c)

\* The contours of a list that pass the area tests and have 3 to 8 vertices,
\* in the order of the list.
RECURSIVE KeptStated(_)
KeptStated(cs) ==
    IF cs = <<>> THEN <<>>
    ELSE (IF PassesAreaTests(Head(cs)) /\ Vertices3to8(Head(cs))
          THEN <<Head(cs)>> ELSE <<>>) \o KeptStated(Tail(cs))

\* C25: among the contours that pass both area tests, filter_contours keeps
\* exactly those whose polygon approximation has 3 to 8 vertices; the kept
\* contours appear in the order of the input and none is duplicated.
C25_VertexTestAndOrder ==
    Filtered => ret.value = KeptStated(args.contours)

\* A call on two different contours that pass the area tests, the first with
\* 8 vertices and the second with 9: the first alone is returned.
C25_Witness_EightKeptNineDropped ==
    /\ Filtered
    /\ Len(args.contours) = 2
    /\ PassesAreaTests(args.contours[1]) /\ PassesAreaTests(args.contours[2])
    /\ args.contours[1].vertices = 8
    /\ args.contours[2].vertices = 9
    /\ ret.value = <<args.contours[1]>>

----------------------------------------------------------------------------
(* Unit calls of apply_blur *)

Call_apply_blur ==
    /\ fn = "idle"
    /\ \E width \in 1..MaxDim, height \in 1..MaxDim,
          kernel_size \in {None} \cup { Some(k) : k \in 0..MaxKernel } :
            /\ fn' = "apply_blur"
            /\ args' = [image |-> Raster(width, height, <<"photo", "gray">>, <<>>),
                        kernel_size |-> kernel_size]
            /\ ret' = apply_blur(Raster(width, height, <<"photo", "gray">>, <<>>),
                                 kernel_size)
    /\ UNCHANGED pipeVars

NextBlur == Call_apply_blur \/ CallReturn

SpecBlur == InitUnit /\ [][NextBlur]_vars

\* The kernel size configured for a call: the argument, or the setting.
ConfiguredKernel == IF args.kernel_size = None THEN 5 ELSE args.kernel_size[1]

\* C26: the kernel size apply_blur passes to the Gaussian smoothing is odd: an
\* even configured size k is replaced by k + 1 and an odd one is used
\* unchanged.
C26_OddKernel ==
    fn = "apply_blur" =>
        /\ ret.ksize % 2 = 1
        /\ ConfiguredKernel % 2 = 0 => ret.ksize = ConfiguredKernel + 1
        /\ ConfiguredKernel % 2 = 1 => ret.ksize = ConfiguredKernel

\* A call with an even configured size has smoothed with the next odd size.
C26_Witness_EvenIncremented ==
    /\ fn = "apply_blur"
    /\ args.kernel_size = Some(4)
    /\ ret.ksize = 5

----------------------------------------------------------------------------
(* analyze_sketch under different diagnostic settings *)

\* Settings that differ from those of config.py in the diagnostic inputs only.
DiagnosticSettings ==
    { [canny_low_threshold |-> lo, canny_high_threshold |-> hi, binary_threshold |-> th] :
        lo \in {10, 50}, hi \in {150, 200}, th \in {60, 127} }

\* The same image is analysed twice, under two choices of the Canny
\* thresholds, the binary threshold and the debug flag.
Call_analyze_sketch_twice ==
    /\ fn = "idle"
    /\ \E ph \in PairPhotos, cfg1 \in DiagnosticSettings, cfg2 \in DiagnosticSettings,
          debug1 \in BOOLEAN, debug2 \in BOOLEAN :
         \E r1 \in ResultsAlone(FrameUnder(ImageSignature, ph, debug1, cfg1)),
            r2 \in ResultsAlone(FrameUnder(ImageSignature, ph, debug2, cfg2)) :
            /\ fn' = "analyze_sketch, twice"
            /\ args' = [photo |-> ph, settings |-> <<cfg1, cfg2>>,
                        return_debug_image |-> <<debug1, debug2>>]
            /\ ret' = <<r1, r2>>
    /\ UNCHANGED pipeVars

NextDiagnostics == Call_analyze_sketch_twice \/ CallReturn

SpecDiagnostics == InitUnit /\ [][NextDiagnostics]_vars

\* C27: the diagnostic-only inputs have no influence on the detected
\* components: two invocations on the same image that differ only in the
\* Canny thresholds, the binary threshold or the debug flag end alike, with
\* identical component lists (or with the same error).
C27_DiagnosticsNoInfluence ==
    fn = "analyze_sketch, twice" =>
        /\ ret[1].kind = ret[2].kind
        /\ ret[1].kind = "raise" => ret[1] = ret[2]
        /\ ret[1].kind = "return" =>
              /\ ret[1].components = ret[2].components
              /\ ret[1].wireframe = ret[2].wireframe

\* Two invocations that differ in every diagnostic input, on a photo with a
\* mark, have both returned.
C27_Witness_AllDiffer ==
    /\ fn = "analyze_sketch, twice"
    /\ args.photo.marks # <<>>
    /\ args.settings[1].canny_low_threshold # args.settings[2].canny_low_threshold
    /\ args.settings[1].canny_high_threshold # args.settings[2].canny_high_threshold
    /\ args.settings[1].binary_threshold # args.settings[2].binary_threshold
    /\ args.return_debug_image[1] # args.return_debug_image[2]
    /\ ret[1].kind = "return"
    /\ ret[2].kind = "return"
    /\ ret[1].debug_image_base64 # ret[2].debug_image_base64

----------------------------------------------------------------------------
(* The edge-anchored rules of the Classifier *)

\* The three edge-anchored rule predicates on the shape of the call.
ArgsNavbar ==
    NavbarRule(Frac(args.shape.y, args.image_height),
               Frac(args.shape.width, args.image_width),
               Frac(args.shape.height, args.image_height))

ArgsFooter ==
    FooterRule(Frac(args.shape.y, args.image_height),
               Frac(args.shape.width, args.image_width),
               Frac(args.shape.height, args.image_height))

ArgsSidebar ==
    SidebarRule(Frac(args.shape.x, args.image_width),
                Frac(args.shape.width, args.image_width),
                Frac(args.shape.height, args.image_height))

\* C28: the NAVBAR, FOOTER and SIDEBAR predicates are pairwise mutually
\* exclusive: for every shape and positive image size at most one of them
\* holds, so their order among themselves does not change the result.
C28_EdgeRulesExclusive ==
    Classified =>
        /\ ~(ArgsNavbar /\ ArgsFooter)
        /\ ~(ArgsNavbar /\ ArgsSidebar)
        /\ ~(ArgsFooter /\ ArgsSidebar)

\* A call on a full-width shape in a band of the image where a FOOTER, were
\* the bottom not asked for, could be taken for a NAVBAR: it is a NAVBAR only.
C28_Witness_NavbarOnly ==
    /\ Classified
    /\ ArgsNavbar
    /\ ~ArgsFooter
    /\ ~ArgsSidebar
    /\ args.shape.height > 0
    /\ ret.kind = "return"
    /\ ret.type = "NAVBAR"

----------------------------------------------------------------------------
(* The sides of the raster returned by the Scaler *)

\* C29: for every raster with width >= 1 and height >= 1 and every ceiling
\* >= 1, the raster returned by resize_for_processing has width >= 1 and
\* height >= 1 and its longest side is at most the ceiling: the dimensions
\* requested from the resize are never zero, whatever the aspect ratio.
C29_ResizedSidesPositive ==
    (/\ Resized
     /\ args.image.width >= 1
     /\ args.image.height >= 1
     /\ args.max_dimension >= 1) =>
        /\ ret.kind = "return"
        /\ ret.image.width >= 1
        /\ ret.image.height >= 1
        /\ ret.image.width <= args.max_dimension
        /\ ret.image.height <= args.max_dimension

----------------------------------------------------------------------------
(* Components inside the target canvas *)

\* A call of the Layout Assembler whose shapes all lie inside the image.
AssembledInside ==
    /\ AssembledSome
    /\ \A i \in 1..Len(args.shapes) :
          /\ args.shapes[i].x >= 0
          /\ args.shapes[i].y >= 0
          /\ InImage(args.shapes[i], args.image_width, args.image_height)

\* C30: every shape that lies inside the image is mapped by
\* shapes_to_components to a component that lies inside the target canvas:
\* position.x + size.width <= canvas_width and position.y + size.height <=
\* canvas_height, for the default canvas and for any canvas passed explicitly.
C30_InsideCanvas ==
    AssembledInside =>
        LET Wc == IF args.canvas_width = None THEN default_canvas_width
                  ELSE args.canvas_width[1]
            Hc == IF args.canvas_height = None THEN default_canvas_height
                  ELSE args.canvas_height[1]
        IN  /\ ret.kind = "return"
            /\ Len(ret.value) = Len(args.shapes)
            /\ \A i \in 1..Len(ret.value) :
                  LET c == ret.value[i]
                  IN  /\ {"position", "size"} \subseteq DOMAIN c
                      /\ ~FLess(Frac(Wc, 1), FAdd(c.position.x, c.size.width))
                      /\ ~FLess(Frac(Hc, 1), FAdd(c.position.y, c.size.height))

====
